---- MODULE Spec2Model ----
(***************************************************************************)
(* QuickList: a list manager whose lists live in the browser's             *)
(* localStorage, one JSON blob per list id, shown by one controller per    *)
(* tab.  The model keeps localStorage as a map from key strings to raw     *)
(* strings, and every tab's reactive state; JSON.stringify / JSON.parse    *)
(* are computed on the strings, character by character.                    *)
(***************************************************************************)
EXTENDS Integers, Sequences, FiniteSets, TLC

(***************************************************************************)
(* Bounds of the model.                                                    *)
(***************************************************************************)
\* crypto.randomUUID() is drawn at most MaxUuid times in a behaviour of SpecSolo
MaxUuid == 3
\* no tab holds more than MaxItems items (addItem is not taken beyond it)
MaxItems == 2
\* no tab has more than MaxEvents undelivered storage events
MaxEvents == 1

\* the tabs (execution contexts) of one browser, all on the same origin
Tabs == {"t1", "t2"}

(***************************************************************************)
(* JavaScript strings.                                                     *)
(***************************************************************************)
\* JavaScript's null (listId before a hash is read, editingId outside edit mode)
Null == "<null>"
\* JavaScript's undefined (a property an object does not have)
Undefined == "<undefined>"

CharAt(s, i) == SubSeq(s, i, i)

\* String.prototype.startsWith
startsWith(s, p) == Len(s) >= Len(p) /\ SubSeq(s, 1, Len(p)) = p

\* String.prototype.slice(n): the string without its first n characters
slice(s, n) == SubSeq(s, n + 1, Len(s))

RECURSIVE trimStart(_)
trimStart(s) ==
    IF Len(s) > 0 /\ CharAt(s, 1) = " " THEN trimStart(slice(s, 1)) ELSE s

RECURSIVE trimEnd(_)
trimEnd(s) ==
    IF Len(s) > 0 /\ CharAt(s, Len(s)) = " "
    THEN trimEnd(SubSeq(s, 1, Len(s) - 1)) ELSE s

\* String.prototype.trim
trim(s) == trimEnd(trimStart(s))

(***************************************************************************)
(* JavaScript values as JSON.parse returns them and as items.value holds   *)
(* them.  Every value is a record of the same shape: type is the value's   *)
(* kind, id and text are the properties of that name when the value is an  *)
(* object and they are strings (Undefined otherwise), lit is the source    *)
(* text of a scalar.  The elements of a nested array are not kept.         *)
(***************************************************************************)
Item(id, text) == [type |-> "object", id |-> id, text |-> text, lit |-> ""]
Scalar(type, lit) == [type |-> type, id |-> Undefined, text |-> Undefined, lit |-> lit]
NestedArray == Scalar("array", "")

Digits == {"0", "1", "2", "3", "4", "5", "6", "7", "8", "9"}
Quote == "\""
Backslash == "\\"

\* a stringify that copies a string's characters as they are
escapeNothing(s) == s

\* the escaping JSON.stringify applies to a string's characters
RECURSIVE escape(_)
escape(s) ==
    IF s = "" THEN ""
    ELSE LET c == CharAt(s, 1)
         IN (IF c = Quote \/ c = Backslash THEN Backslash \o c ELSE c)
                \o escape(slice(s, 1))

quoteString(s) == Quote \o escape(s) \o Quote

\* JSON.stringify of one element of items.value
stringifyValue(v) ==
    CASE v.type = "object" ->
            "{" \o (IF v.id = Undefined THEN ""
                    ELSE "\"id\":" \o quoteString(v.id))
                \o (IF v.id # Undefined /\ v.text # Undefined THEN "," ELSE "")
                \o (IF v.text = Undefined THEN ""
                    ELSE "\"text\":" \o quoteString(v.text))
                \o "}"
      [] v.type = "string" -> quoteString(v.lit)
      [] v.type = "array" -> "[]"
      [] OTHER -> v.lit

RECURSIVE stringifyElements(_)
stringifyElements(vs) ==
    IF vs = <<>> THEN ""
    ELSE stringifyValue(Head(vs))
            \o (IF Len(vs) > 1 THEN "," ELSE "")
            \o stringifyElements(Tail(vs))

\* JSON.stringify of an array
stringify(vs) == "[" \o stringifyElements(vs) \o "]"

(***************************************************************************)
(* JSON.parse, by recursive descent over the characters.  The grammar is   *)
(* JSON without insignificant white space, with the escapes \" and \\ and  *)
(* unsigned integer numbers.  A result is [ok, v, elems, next]: ok is      *)
(* FALSE where JSON.parse throws a SyntaxError, v is the value read,       *)
(* elems its elements when it is an array, next the position after it.     *)
(***************************************************************************)
SyntaxError == [ok |-> FALSE, v |-> Scalar("null", "null"), elems |-> <<>>, next |-> 0]
Parsed(v, elems, next) == [ok |-> TRUE, v |-> v, elems |-> elems, next |-> next]

RECURSIVE parseChars(_, _, _)
parseChars(s, i, acc) ==
    IF i > Len(s) THEN SyntaxError
    ELSE LET c == CharAt(s, i)
         IN IF c = Quote THEN Parsed(Scalar("string", acc), <<>>, i + 1)
            ELSE IF c = Backslash
                 THEN IF i + 1 <= Len(s) /\ CharAt(s, i + 1) \in {Quote, Backslash}
                      THEN parseChars(s, i + 2, acc \o CharAt(s, i + 1))
                      ELSE SyntaxError
                 ELSE parseChars(s, i + 1, acc \o c)

RECURSIVE parseDigits(_, _)
parseDigits(s, i) ==
    IF i <= Len(s) /\ CharAt(s, i) \in Digits THEN parseDigits(s, i + 1) ELSE i

parseNumber(s, i) ==
    LET j == parseDigits(s, i)
    IN IF CharAt(s, i) = "0" /\ j > i + 1 THEN SyntaxError
       ELSE Parsed(Scalar("number", SubSeq(s, i, j - 1)), <<>>, j)

parseLiteral(s, i, word, type) ==
    IF startsWith(slice(s, i - 1), word)
    THEN Parsed(Scalar(type, word), <<>>, i + Len(word))
    ELSE SyntaxError

RECURSIVE parseValue(_, _)
RECURSIVE parseElements(_, _, _)
RECURSIVE parseMembers(_, _, _)

parseValue(s, i) ==
    IF i > Len(s) THEN SyntaxError
    ELSE LET c == CharAt(s, i)
         IN CASE c = Quote -> parseChars(s, i + 1, "")
              [] c \in Digits -> parseNumber(s, i)
              [] c = "n" -> parseLiteral(s, i, "null", "null")
              [] c = "t" -> parseLiteral(s, i, "true", "boolean")
              [] c = "f" -> parseLiteral(s, i, "false", "boolean")
              [] c = "[" ->
                    IF i + 1 <= Len(s) /\ CharAt(s, i + 1) = "]"
                    THEN Parsed(NestedArray, <<>>, i + 2)
                    ELSE parseElements(s, i + 1, <<>>)
              [] c = "{" ->
                    IF i + 1 <= Len(s) /\ CharAt(s, i + 1) = "}"
                    THEN Parsed(Item(Undefined, Undefined), <<>>, i + 2)
                    ELSE parseMembers(s, i + 1, Item(Undefined, Undefined))
              [] OTHER -> SyntaxError

parseElements(s, i, acc) ==
    LET r == parseValue(s, i)
    IN IF ~r.ok \/ r.next > Len(s) THEN SyntaxError
       ELSE LET c == CharAt(s, r.next)
            IN CASE c = "," -> parseElements(s, r.next + 1, Append(acc, r.v))
                 [] c = "]" -> Parsed(NestedArray, Append(acc, r.v), r.next + 1)
                 [] OTHER -> SyntaxError

parseMembers(s, i, obj) ==
    IF i > Len(s) \/ CharAt(s, i) # Quote THEN SyntaxError
    ELSE LET k == parseChars(s, i + 1, "")
         IN IF ~k.ok \/ k.next > Len(s) \/ CharAt(s, k.next) # ":" THEN SyntaxError
            ELSE LET r == parseValue(s, k.next + 1)
                     str == IF r.v.type = "string" THEN r.v.lit ELSE Undefined
                     o == CASE k.v.lit = "id" -> [obj EXCEPT !.id = str]
                            [] k.v.lit = "text" -> [obj EXCEPT !.text = str]
                            [] OTHER -> obj
                 IN IF ~r.ok \/ r.next > Len(s) THEN SyntaxError
                    ELSE LET c == CharAt(s, r.next)
                         IN CASE c = "," -> parseMembers(s, r.next + 1, o)
                              [] c = "}" -> Parsed(o, <<>>, r.next + 1)
                              [] OTHER -> SyntaxError

\* JSON.parse: the whole text must be one value
parse(s) ==
    LET r == parseValue(s, 1)
    IN IF r.ok /\ r.next = Len(s) + 1 THEN r ELSE SyntaxError

\* Array.isArray of a parse result
isArray(r) == r.v.type = "array"

(***************************************************************************)
(* localStorage: a map from the keys present to their raw strings.         *)
(***************************************************************************)
\* Storage.getItem: null for a key that is not present
getItem(st, k) == IF k \in DOMAIN st THEN st[k] ELSE Null

\* Storage.setItem
setItem(st, k, v) == [x \in DOMAIN st \cup {k} |-> IF x = k THEN v ELSE st[x]]

\* Storage.removeItem
removeItem(st, k) == [x \in DOMAIN st \ {k} |-> st[x]]

EmptyStorage == [x \in {} |-> ""]

(***************************************************************************)
(* The storage adapter, storage/localStorage.js.                           *)
(***************************************************************************)
PREFIX == "quicklist_"
TITLE_PREFIX == "quicklist_title_"
DefaultTitle == "My List"

load(st, uuid) ==
    LET raw == getItem(st, PREFIX \o uuid)
    IN IF raw = Null \/ raw = "" THEN <<>>
       ELSE LET data == parse(raw)
            IN IF ~data.ok THEN <<>>                 \* catch
               ELSE IF isArray(data) THEN data.elems ELSE <<>>

\* a save that merges: it keeps the stored items that the sequence lacks
saveMerged(st, uuid, its) ==
    setItem(st, PREFIX \o uuid,
            stringify(its \o SelectSeq(load(st, uuid),
                                       LAMBDA v : \A n \in 1..Len(its) : its[n].id # v.id)))

save(st, uuid, its) == setItem(st, PREFIX \o uuid, stringify(its))

remove(st, uuid) == removeItem(st, PREFIX \o uuid)

loadTitle(st, uuid) ==
    LET raw == getItem(st, TITLE_PREFIX \o uuid)
    IN IF raw = Null \/ raw = "" THEN DefaultTitle ELSE raw

saveTitle(st, uuid, title) == setItem(st, TITLE_PREFIX \o uuid, title)

(***************************************************************************)
(* The state: localStorage, and per tab the controller's reactive state    *)
(* (app.js, setup), the tab's address and its undelivered events.  The two *)
(* textarea buffers, newItemText and editingText, are read only by addItem *)
(* and saveEdit: what they hold when the handler runs is the handler's     *)
(* input typed.                                                            *)
(***************************************************************************)
VARIABLES
    store,        \* localStorage of the origin
    uuids,        \* how many times crypto.randomUUID() has been drawn
    mounted,      \* mounted[c]: tab c has run setup and onMounted
    hash,         \* hash[c]: window.location.hash of tab c
    events,       \* events[c]: the keys of the storage events queued in tab c
    listId,       \* listId[c]: listId.value
    items,        \* items[c]: items.value
    editingId,    \* editingId[c]: editingId.value
    last,         \* history: the last operation taken and how it ended, [op, tab]
    left,         \* history: left[c][L] is what tab c held when it last left list L
    ret           \* the value the last direct adapter call returned

vars == <<store, uuids, mounted, hash, events, listId, items, editingId, last, left, ret>>

\* the n-th value crypto.randomUUID() returns: each draw is a new value
UUID(n) == "u" \o ToString(n)

\* the values drawn so far
Issued == {UUID(n) : n \in 1..uuids}

\* the lists that exist: those with a record in the store, those a tab shows
KnownLists ==
    {slice(k, Len(PREFIX)) : k \in DOMAIN store}
        \cup {listId[d] : d \in {e \in Tabs : mounted[e]}}

\* what a textarea can hold when its handler runs
TypedTexts == {"", " ", " a ", "q\""}

\* the addresses a tab can be opened at or be sent to: no hash, the bare "#/",
\* or the address of a list that exists
HashInputs == {"", "#/"} \cup {"#/" \o u : u \in KnownLists}

Last(op, c) == [op |-> op, tab |-> c]

\* what a direct adapter call returned: load's items, loadTitle's title
NoReturn == [items |-> <<>>, title |-> ""]

NoTabs ==
    /\ uuids = 0
    /\ mounted = [c \in Tabs |-> FALSE]
    /\ hash = [c \in Tabs |-> ""]
    /\ events = [c \in Tabs |-> <<>>]
    /\ listId = [c \in Tabs |-> Null]
    /\ items = [c \in Tabs |-> <<>>]
    /\ editingId = [c \in Tabs |-> Null]
    /\ last = Last("init", "")
    /\ left = [c \in Tabs |-> EmptyStorage]
    /\ ret = NoReturn

Init ==
    /\ store = EmptyStorage
    /\ NoTabs

(***************************************************************************)
(* A write of tab c to localStorage: the browser queues a storage event,   *)
(* carrying the key, in every other tab that listens (onStorageChange is   *)
(* registered in setup), when the key's value changed.                     *)
(***************************************************************************)
Changed(st) ==
    {k \in DOMAIN store \cup DOMAIN st : getItem(store, k) # getItem(st, k)}

\* a browser that fires no storage event
NotifiedNobody(c, st) == {}

Notified(c, st) == {d \in Tabs \ {c} : mounted[d] /\ Changed(st) # {}}

CanWrite(c, st) == \A d \in Notified(c, st) : Len(events[d]) < MaxEvents

Write(c, st) ==
    /\ store' = st
    /\ events' = [d \in Tabs |->
                    IF d \in Notified(c, st)
                    THEN Append(events[d], CHOOSE k \in Changed(st) : TRUE)
                    ELSE events[d]]

\* getIdFromHash
getIdFromHash(h) == IF startsWith(h, "#/") /\ Len(h) > 2 THEN slice(h, 2) ELSE Null

\* history: tab c leaves the list it shows; kept where track says so
Leave(c, by, track) ==
    left' = IF track
            THEN [left EXCEPT ![c] = setItem(left[c], listId[c],
                                             [items |-> items[c], by |-> by])]
            ELSE left

(***************************************************************************)
(* The controller, app.js.  One action per handler; c is the tab.          *)
(***************************************************************************)
\* createApp(...).mount('#app') in a tab opened at address h: setup, then onMounted
Setup(c, h, cap) ==
    /\ ~mounted[c]
    /\ LET fromHash == getIdFromHash(h)
           generate == fromHash = Null
           id == IF generate THEN UUID(uuids + 1) ELSE fromHash
       IN /\ generate => uuids < cap
          /\ uuids' = IF generate THEN uuids + 1 ELSE uuids
          /\ listId' = [listId EXCEPT ![c] = id]
          /\ hash' = [hash EXCEPT ![c] = IF generate THEN "#/" \o id ELSE h]
          /\ items' = [items EXCEPT ![c] = load(store, id)]
          /\ last' = Last(IF generate THEN "setup:generated" ELSE "setup:fromHash", c)
    /\ mounted' = [mounted EXCEPT ![c] = TRUE]
    /\ UNCHANGED <<store, events, editingId, left, ret>>

\* an addItem that tests and stores the text as typed, untrimmed
addItemUntrimmed(c, typed, cap) ==
    /\ mounted[c]
    /\ IF typed = ""
       THEN /\ last' = Last("addItem:rejected", c)
            /\ UNCHANGED <<store, events, uuids, items>>
       ELSE LET its == Append(items[c], Item(UUID(uuids + 1), typed))
                st == save(store, listId[c], its)
            IN /\ uuids < cap
               /\ Len(items[c]) < MaxItems
               /\ CanWrite(c, st)
               /\ uuids' = uuids + 1
               /\ items' = [items EXCEPT ![c] = its]
               /\ Write(c, st)
               /\ last' = Last(IF trim(typed) = "" THEN "addItem:rejected"
                               ELSE "addItem:added", c)
    /\ UNCHANGED <<mounted, hash, listId, editingId, left, ret>>

\* addItem, with newItemText.value = typed
addItem(c, typed, cap) ==
    /\ mounted[c]
    /\ LET text == trim(typed)
       IN IF text = ""
          THEN /\ last' = Last("addItem:rejected", c)
               /\ UNCHANGED <<store, events, uuids, items>>
          ELSE LET its == Append(items[c], Item(UUID(uuids + 1), text))
                   st == save(store, listId[c], its)
               IN /\ uuids < cap
                  /\ Len(items[c]) < MaxItems
                  /\ CanWrite(c, st)
                  /\ uuids' = uuids + 1
                  /\ items' = [items EXCEPT ![c] = its]
                  /\ Write(c, st)
                  /\ last' = Last("addItem:added", c)
    /\ UNCHANGED <<mounted, hash, listId, editingId, left, ret>>

\* a deleteItem that removes by position, items.splice(findIndex(id), 1): an
\* index of -1 is the last element's
deleteItemByIndex(c, id, confirmed) ==
    /\ mounted[c]
    /\ IF ~confirmed
       THEN UNCHANGED <<store, events, items>>
       ELSE LET hits == {n \in 1..Len(items[c]) : items[c][n].id = id}
                \* Array.prototype.findIndex: the first hit's index, -1 when none
                i == IF hits = {} THEN -1
                     ELSE (CHOOSE n \in hits : \A m \in hits : n <= m) - 1
                its == IF items[c] = <<>> THEN <<>>
                       ELSE IF i = -1 THEN SubSeq(items[c], 1, Len(items[c]) - 1)
                       ELSE SubSeq(items[c], 1, i) \o SubSeq(items[c], i + 2, Len(items[c]))
                st == save(store, listId[c], its)
            IN /\ CanWrite(c, st)
               /\ items' = [items EXCEPT ![c] = its]
               /\ Write(c, st)
    /\ last' = Last(CASE ~confirmed -> "deleteItem:unconfirmed"
                       [] confirmed /\ \A n \in 1..Len(items[c]) : items[c][n].id # id ->
                            "deleteItem:missed"
                       [] OTHER -> "deleteItem:removed", c)
    /\ UNCHANGED <<uuids, mounted, hash, listId, editingId, left, ret>>

\* a deleteItem that filters the sequence and does not save it
deleteItemUnsaved(c, id, confirmed) ==
    /\ mounted[c]
    /\ IF ~confirmed
       THEN UNCHANGED items
       ELSE items' = [items EXCEPT ![c] = SelectSeq(items[c], LAMBDA i : i.id # id)]
    /\ last' = Last(CASE ~confirmed -> "deleteItem:unconfirmed"
                       [] confirmed /\ \A n \in 1..Len(items[c]) : items[c][n].id # id ->
                            "deleteItem:missed"
                       [] OTHER -> "deleteItem:removed", c)
    /\ UNCHANGED <<store, events, uuids, mounted, hash, listId, editingId, left, ret>>

\* deleteItem(id); confirmed is the answer to confirm('Delete this item?')
deleteItem(c, id, confirmed) ==
    /\ mounted[c]
    /\ IF ~confirmed
       THEN UNCHANGED <<store, events, items>>
       ELSE LET its == SelectSeq(items[c], LAMBDA i : i.id # id)
                st == save(store, listId[c], its)
            IN /\ CanWrite(c, st)
               /\ items' = [items EXCEPT ![c] = its]
               /\ Write(c, st)
    /\ last' = Last(CASE ~confirmed -> "deleteItem:unconfirmed"
                       [] confirmed /\ \A n \in 1..Len(items[c]) : items[c][n].id # id ->
                            "deleteItem:missed"
                       [] OTHER -> "deleteItem:removed", c)
    /\ UNCHANGED <<uuids, mounted, hash, listId, editingId, left, ret>>

\* startEdit(item), item the n-th row
startEdit(c, n) ==
    /\ mounted[c]
    /\ n \in 1..Len(items[c])
    /\ editingId' = [editingId EXCEPT ![c] = items[c][n].id]
    /\ last' = Last("startEdit", c)
    /\ UNCHANGED <<store, events, uuids, mounted, hash, listId, items, left, ret>>

\* the row whose edit textarea is shown: the item that editingId names
EditedRow(c) == {n \in 1..Len(items[c]) : items[c][n].id = editingId[c]}

\* a saveEdit that tests and stores the text as typed, untrimmed
saveEditUntrimmed(c, typed) ==
    /\ mounted[c]
    /\ \E n \in EditedRow(c) :
          LET its == [items[c] EXCEPT ![n].text = typed]
              st == save(store, listId[c], its)
          IN IF typed # ""
             THEN /\ CanWrite(c, st)
                  /\ items' = [items EXCEPT ![c] = its]
                  /\ Write(c, st)
             ELSE UNCHANGED <<store, events, items>>
    /\ editingId' = [editingId EXCEPT ![c] = Null]
    /\ last' = Last(IF trim(typed) # "" THEN "saveEdit:saved" ELSE "saveEdit:discarded", c)
    /\ UNCHANGED <<uuids, mounted, hash, listId, left, ret>>

\* saveEdit(item), on the row in edit mode, with editingText.value = typed
saveEdit(c, typed) ==
    /\ mounted[c]
    /\ \E n \in EditedRow(c) :
          LET text == trim(typed)
              its == [items[c] EXCEPT ![n].text = text]
              st == save(store, listId[c], its)
          IN IF text # ""
             THEN /\ CanWrite(c, st)
                  /\ items' = [items EXCEPT ![c] = its]
                  /\ Write(c, st)
             ELSE UNCHANGED <<store, events, items>>
    \* cancelEdit()
    /\ editingId' = [editingId EXCEPT ![c] = Null]
    /\ last' = Last(IF trim(typed) # "" THEN "saveEdit:saved" ELSE "saveEdit:discarded", c)
    /\ UNCHANGED <<uuids, mounted, hash, listId, left, ret>>

\* cancelEdit, on the row in edit mode
cancelEdit(c) ==
    /\ mounted[c]
    /\ editingId[c] # Null
    /\ editingId' = [editingId EXCEPT ![c] = Null]
    /\ last' = Last("cancelEdit", c)
    /\ UNCHANGED <<store, events, uuids, mounted, hash, listId, items, left, ret>>

\* a newList that empties and saves the list before it changes listId
newListSavingOld(c, track, cap) ==
    /\ mounted[c]
    /\ uuids < cap
    /\ CanWrite(c, save(store, listId[c], <<>>))
    /\ Write(c, save(store, listId[c], <<>>))
    /\ uuids' = uuids + 1
    /\ listId' = [listId EXCEPT ![c] = UUID(uuids + 1)]
    /\ hash' = [hash EXCEPT ![c] = "#/" \o UUID(uuids + 1)]
    /\ items' = [items EXCEPT ![c] = <<>>]
    /\ editingId' = [editingId EXCEPT ![c] = Null]
    /\ last' = Last(IF editingId[c] = Null THEN "newList" ELSE "newList:fromEdit", c)
    /\ Leave(c, "newList", track)
    /\ UNCHANGED <<mounted, ret>>

\* newList
newList(c, track, cap) ==
    /\ mounted[c]
    /\ uuids < cap
    /\ uuids' = uuids + 1
    /\ listId' = [listId EXCEPT ![c] = UUID(uuids + 1)]
    /\ hash' = [hash EXCEPT ![c] = "#/" \o UUID(uuids + 1)]
    /\ items' = [items EXCEPT ![c] = <<>>]
    /\ editingId' = [editingId EXCEPT ![c] = Null]
    /\ last' = Last(IF editingId[c] = Null THEN "newList" ELSE "newList:fromEdit", c)
    /\ Leave(c, "newList", track)
    /\ UNCHANGED <<store, events, mounted, ret>>

\* Array.prototype.splice(i, 1): the array without its element at index i (from 0)
spliceOut(a, i) == SubSeq(a, 1, i) \o SubSeq(a, i + 2, Len(a))

\* Array.prototype.splice(i, 0, v): v inserted at index i (from 0)
spliceIn(a, i, v) == SubSeq(a, 1, i) \o <<v>> \o SubSeq(a, i + 1, Len(a))

\* an onEnd that exchanges the two rows
reorderBySwap(a, oldIndex, newIndex) ==
    [n \in 1..Len(a) |-> CASE n = oldIndex + 1 -> a[newIndex + 1]
                           [] n = newIndex + 1 -> a[oldIndex + 1]
                           [] OTHER -> a[n]]

\* an onEnd that inserts the row at its new place and leaves it at the old one
reorderCopy(a, oldIndex, newIndex) == spliceIn(a, newIndex, a[oldIndex + 1])

\* what Sortable's onEnd makes of the array
reorder(a, oldIndex, newIndex) ==
    spliceIn(spliceOut(a, oldIndex), newIndex, a[oldIndex + 1])

\* Sortable's onEnd(evt): a row dragged from evt.oldIndex to evt.newIndex
onEnd(c, oldIndex, newIndex) ==
    /\ mounted[c]
    /\ oldIndex \in 0..(Len(items[c]) - 1)
    /\ newIndex \in 0..(Len(items[c]) - 1)
    /\ LET its == reorder(items[c], oldIndex, newIndex)
           st == save(store, listId[c], its)
       IN /\ CanWrite(c, st)
          /\ items' = [items EXCEPT ![c] = its]
          /\ Write(c, st)
    /\ last' = Last("onEnd", c)
    /\ UNCHANGED <<uuids, mounted, hash, listId, editingId, left, ret>>

\* a listener that switches the list and leaves editingId as it is
hashchangeKeepingEdit(c, h, track) ==
    /\ mounted[c]
    /\ h # hash[c]
    /\ hash' = [hash EXCEPT ![c] = h]
    /\ LET newId == getIdFromHash(h)
       IN IF newId # Null /\ newId # listId[c]
          THEN /\ listId' = [listId EXCEPT ![c] = newId]
               /\ items' = [items EXCEPT ![c] = load(store, newId)]
               /\ Leave(c, "hashchange", track)
               /\ last' = Last(IF editingId[c] = Null THEN "hashchange:switched"
                               ELSE "hashchange:switchedFromEdit", c)
          ELSE /\ UNCHANGED <<listId, items, left>>
               /\ last' = Last("hashchange:ignored", c)
    /\ UNCHANGED <<store, events, uuids, mounted, editingId, ret>>

\* the 'hashchange' listener, run when the address of tab c is changed to h from
\* outside (back, forward, a typed address)
hashchange(c, h, track) ==
    /\ mounted[c]
    /\ h # hash[c]
    /\ hash' = [hash EXCEPT ![c] = h]
    /\ LET newId == getIdFromHash(h)
       IN IF newId # Null /\ newId # listId[c]
          THEN /\ listId' = [listId EXCEPT ![c] = newId]
               /\ editingId' = [editingId EXCEPT ![c] = Null]
               /\ items' = [items EXCEPT ![c] = load(store, newId)]
               /\ Leave(c, "hashchange", track)
               /\ last' = Last(IF editingId[c] = Null THEN "hashchange:switched"
                               ELSE "hashchange:switchedFromEdit", c)
          ELSE /\ UNCHANGED <<listId, editingId, items, left>>
               /\ last' = Last("hashchange:ignored", c)
    /\ UNCHANGED <<store, events, uuids, mounted, ret>>

\* a listener that cuts one character too many off the key
storageEventCutLong(c) ==
    /\ mounted[c]
    /\ events[c] # <<>>
    /\ events' = [events EXCEPT ![c] = Tail(events[c])]
    /\ LET key == Head(events[c])
           uuid == slice(key, Len(PREFIX) + 1)
       IN IF startsWith(key, PREFIX) /\ uuid = listId[c]
          THEN /\ items' = [items EXCEPT ![c] = load(store, uuid)]
               /\ last' = Last("storage:reloaded", c)
          ELSE /\ UNCHANGED items
               /\ last' = Last("storage:ignored", c)
    /\ UNCHANGED <<store, uuids, mounted, hash, listId, editingId, left, ret>>

\* the 'storage' listener of onStorageChange with the callback app.js gives it
storageEvent(c) ==
    /\ mounted[c]
    /\ events[c] # <<>>
    /\ events' = [events EXCEPT ![c] = Tail(events[c])]
    /\ LET key == Head(events[c])
           uuid == slice(key, Len(PREFIX))
       IN IF startsWith(key, PREFIX) /\ uuid = listId[c]
          THEN /\ items' = [items EXCEPT ![c] = load(store, uuid)]
               /\ last' = Last("storage:reloaded", c)
          ELSE /\ UNCHANGED items
               /\ last' = Last("storage:ignored", c)
    /\ UNCHANGED <<store, uuids, mounted, hash, listId, editingId, left, ret>>

(***************************************************************************)
(* Spec: the tabs of one browser, each taking any handler at any time.     *)
(* A tab is opened at the bare address or at the address of a list that    *)
(* exists, and is sent to the addresses of such lists; the texts typed are *)
(* white space alone, and a text with white space around it and a quote    *)
(* in it.                                                                  *)
(***************************************************************************)
\* crypto.randomUUID() is drawn at most MaxSharedUuid times in a behaviour of Spec
MaxSharedUuid == 2

SharedTexts == {" ", " q\" "}

KnownHashes == {"#/" \o u : u \in KnownLists}

Next ==
    \E c \in Tabs :
        \/ \E h \in {""} \cup KnownHashes : Setup(c, h, MaxSharedUuid)
        \/ \E typed \in SharedTexts : addItem(c, typed, MaxSharedUuid)
        \/ \E id \in Issued, confirmed \in BOOLEAN : deleteItem(c, id, confirmed)
        \/ \E n \in 1..MaxItems : startEdit(c, n)
        \/ \E typed \in SharedTexts : saveEdit(c, typed)
        \/ cancelEdit(c)
        \/ newList(c, FALSE, MaxSharedUuid)
        \/ \E o, d \in 0..(MaxItems - 1) : onEnd(c, o, d)
        \/ \E h \in KnownHashes : hashchange(c, h, FALSE)
        \/ storageEvent(c)

Spec == Init /\ [][Next]_vars

(***************************************************************************)
(* SpecSolo: one tab alone in the browser, with every input; the history   *)
(* of the lists it left is kept.                                           *)
(***************************************************************************)
NextSolo ==
    \/ \E h \in HashInputs : Setup("t1", h, MaxUuid)
    \/ \E typed \in TypedTexts : addItem("t1", typed, MaxUuid)
    \/ \E id \in Issued, confirmed \in BOOLEAN : deleteItem("t1", id, confirmed)
    \/ \E n \in 1..MaxItems : startEdit("t1", n)
    \/ \E typed \in TypedTexts : saveEdit("t1", typed)
    \/ cancelEdit("t1")
    \/ newList("t1", TRUE, MaxUuid)
    \/ \E o, d \in 0..(MaxItems - 1) : onEnd("t1", o, d)
    \/ \E h \in HashInputs : hashchange("t1", h, TRUE)

SpecSolo == Init /\ [][NextSolo]_vars

(***************************************************************************)
(* SpecReorder: one tab showing a list of up to MaxReorderLen items, rows  *)
(* dragged and deleted.                                                    *)
(***************************************************************************)
\* the longest list of SpecReorder
MaxReorderLen == 4

\* the list of n items: its id is the first value drawn, the items' ids the next
ListOf(n) == [i \in 1..n |-> Item(UUID(i + 1), "a")]

InitReorder ==
    \E n \in 0..MaxReorderLen :
        /\ store = save(EmptyStorage, UUID(1), ListOf(n))
        /\ uuids = n + 1
        /\ mounted = [c \in Tabs |-> c = "t1"]
        /\ hash = [c \in Tabs |-> IF c = "t1" THEN "#/" \o UUID(1) ELSE ""]
        /\ events = [c \in Tabs |-> <<>>]
        /\ listId = [c \in Tabs |-> IF c = "t1" THEN UUID(1) ELSE Null]
        /\ items = [c \in Tabs |-> IF c = "t1" THEN ListOf(n) ELSE <<>>]
        /\ editingId = [c \in Tabs |-> Null]
        /\ last = Last("setup:fromHash", "t1")
        /\ left = [c \in Tabs |-> EmptyStorage]
        /\ ret = NoReturn

NextReorder ==
    \/ \E o, d \in 0..(MaxReorderLen - 1) : onEnd("t1", o, d)
    \/ \E id \in Issued : deleteItem("t1", id, TRUE)

SpecReorder == InitReorder /\ [][NextReorder]_vars

(***************************************************************************)
(* SpecAdapter: the adapter's functions called directly, on a store that   *)
(* holds any raw value for a list.                                         *)
(***************************************************************************)
\* the list identifiers the adapter is called with
AdapterIds == {"u1", "title_u1"}

\* raw values of a list's key: corrupt, not an array, an array of other things
\* than item records, and encodings of item sequences
RawValues ==
    {"", "x", "[", "7", "null", "\"a\"", "{\"id\":\"u2\",\"text\":\"a\"}",
     "[7]", "[null]", "[{\"id\":\"u2\"}]", "[{\"id\":\"u2\",\"text\":\"a\"},7]",
     "[]", "[{\"id\":\"u2\",\"text\":\"a\"}]"}

\* the titles saveTitle is called with
Titles == {"", "T", "[7]"}

\* the item sequences save is called with
SavedSequences ==
    {<<>>, <<Item("u2", "a")>>, <<Item("u3", "q\""), Item("u2", "a\\")>>}

InitAdapter ==
    /\ \E raw \in RawValues \cup {Null} :
          store = IF raw = Null THEN EmptyStorage
                  ELSE setItem(EmptyStorage, PREFIX \o "u1", raw)
    /\ NoTabs

\* the controllers' state, which a direct adapter call leaves alone
tabVars == <<uuids, mounted, hash, listId, items, editingId, left>>

\* storage.load(uuid), called in tab c
callLoad(c, uuid) ==
    /\ ret' = [items |-> load(store, uuid), title |-> ""]
    /\ last' = Last("load", c)
    /\ UNCHANGED <<store, events, tabVars>>

\* storage.save(uuid, its)
callSave(c, uuid, its) ==
    /\ CanWrite(c, save(store, uuid, its))
    /\ Write(c, save(store, uuid, its))
    /\ ret' = NoReturn
    /\ last' = Last("save", c)
    /\ UNCHANGED tabVars

\* storage.remove(uuid)
callRemove(c, uuid) ==
    /\ CanWrite(c, remove(store, uuid))
    /\ Write(c, remove(store, uuid))
    /\ ret' = NoReturn
    /\ last' = Last("remove", c)
    /\ UNCHANGED tabVars

\* storage.loadTitle(uuid)
callLoadTitle(c, uuid) ==
    /\ ret' = [items |-> <<>>, title |-> loadTitle(store, uuid)]
    /\ last' = Last("loadTitle", c)
    /\ UNCHANGED <<store, events, tabVars>>

\* storage.saveTitle(uuid, title)
callSaveTitle(c, uuid, title) ==
    /\ CanWrite(c, saveTitle(store, uuid, title))
    /\ Write(c, saveTitle(store, uuid, title))
    /\ ret' = NoReturn
    /\ last' = Last("saveTitle", c)
    /\ UNCHANGED tabVars

NextAdapter ==
    \E uuid \in AdapterIds :
        \/ callLoad("t1", uuid)
        \/ \E its \in SavedSequences : callSave("t1", uuid, its)
        \/ callRemove("t1", uuid)
        \/ callLoadTitle("t1", uuid)
        \/ \E title \in Titles : callSaveTitle("t1", uuid, title)

SpecAdapter == InitAdapter /\ [][NextAdapter]_vars

(***************************************************************************)
(* SpecAddress: one tab opened at, and sent to, addresses of every form:   *)
(* no hash, a hash that carries nothing, the address of a list, and        *)
(* addresses whose text after "#/" is not an identifier randomUUID makes.  *)
(***************************************************************************)
\* crypto.randomUUID() is drawn at most MaxAddressUuid times in a behaviour of SpecAddress
MaxAddressUuid == 3

AddressInputs == {"", "#", "#/", "#u1", "#/u1", "#/u2", "#/ ", "#/title_u1"}

NextAddress ==
    \/ \E h \in AddressInputs : Setup("t1", h, MaxAddressUuid)
    \/ \E typed \in SharedTexts : addItem("t1", typed, MaxAddressUuid)
    \/ \E n \in 1..MaxItems : startEdit("t1", n)
    \/ cancelEdit("t1")
    \/ newList("t1", FALSE, MaxAddressUuid)
    \/ \E h \in AddressInputs : hashchange("t1", h, FALSE)

SpecAddress == Init /\ [][NextAddress]_vars

(***************************************************************************)
(* Properties.                                                             *)
(***************************************************************************)
\* the sequence a without its n-th element
Without(a, n) == [m \in 1..(Len(a) - 1) |-> IF m < n THEN a[m] ELSE a[m + 1]]

\* the elements of a sequence
Range(a) == {a[n] : n \in 1..Len(a)}

\* a raw value that is the encoding of a sequence of {id, text} item records
WellFormedItems(raw) ==
    /\ raw # Null
    /\ parse(raw).ok
    /\ isArray(parse(raw))
    /\ \A v \in Range(parse(raw).elems) :
          v.type = "object" /\ v.id # Undefined /\ v.text # Undefined

\* C1: whatever sequence a tab holds after any adds, deletes, edits and
\* reorders, and for every list identifier, loading right after saving the
\* sequence returns it: same length, order, ids and texts.
C1_RoundTrip ==
    \A c \in Tabs :
        mounted[c] =>
            \A L \in KnownLists \cup {"x"} :
                load(save(store, L, items[c]), L) = items[c]

\* a tab holds two items, one with a quote in its text, after a reorder
C1_Witness ==
    /\ last = Last("onEnd", "t1")
    /\ Len(items["t1"]) = 2
    /\ \E n \in 1..2 : items["t1"][n].text = "q\""

\* the notification of an Add is queued in every other tab that shows the list
C2_Queued ==
    \A c1, c2 \in Tabs :
        (c1 # c2 /\ last = Last("addItem:added", c1) /\ mounted[c2]
            /\ listId[c2] = listId[c1])
        => PREFIX \o listId[c2] \in Range(events[c2])

\* the tab that processes the notification of an Add gets the added item,
\* which it did not hold
C2_Delivered ==
    \A c1, c2 \in Tabs :
        (/\ c1 # c2
         /\ last = Last("addItem:added", c1)
         /\ listId[c2] = listId[c1]
         /\ events[c2] # <<>>
         /\ Head(events[c2]) = PREFIX \o listId[c2]
         /\ storageEvent(c2))
        => /\ items[c1][Len(items[c1])] \in Range(items'[c2])
           /\ items[c1][Len(items[c1])] \notin Range(items[c2])

\* C2: when tab c1 has just added an item to the list that tab c2 shows too,
\* the notification of that write is queued in c2, and once c2 has
\* processed it the item is in c2's sequence, though c2 never added it.
C2_CrossContext == [](C2_Queued) /\ [][C2_Delivered]_vars

\* tab t2 has reloaded the list it shares with t1 and holds the item t1 holds
C2_Witness ==
    /\ last = Last("storage:reloaded", "t2")
    /\ listId["t2"] = listId["t1"]
    /\ items["t2"] # <<>>
    /\ items["t2"] = items["t1"]

\* C3: load returns the empty sequence whenever the list's key is absent or
\* holds anything but the encoding of a sequence of item records.
C3_LoadFailsSoft ==
    \A L \in AdapterIds :
        ~WellFormedItems(getItem(store, PREFIX \o L)) => load(store, L) = <<>>

\* C4: an Add whose text is empty once trimmed changes no tab's sequence and
\* writes nothing to the store.
C4_AddRejected ==
    [][\A c \in Tabs, typed \in TypedTexts :
          (trim(typed) = "" /\ addItem(c, typed, MaxUuid))
          => (items' = items /\ store' = store)]_vars

\* a tab that holds items has rejected an Add
C4_Witness ==
    /\ last = Last("addItem:rejected", "t1")
    /\ items["t1"] # <<>>

\* C5: a confirmed Delete of an id that no item has leaves the sequence as it
\* is; of an id that an item has, removes that one item and keeps the others
\* in their order.
C5_DeleteExact ==
    [][\A c \in Tabs, id \in Issued :
          deleteItem(c, id, TRUE)
          => LET hits == {n \in 1..Len(items[c]) : items[c][n].id = id}
             IN IF hits = {} THEN items'[c] = items[c]
                ELSE \E n \in hits : hits = {n} /\ items'[c] = Without(items[c], n)]_vars

\* a tab that holds two or more items has taken a confirmed Delete that matched none
C5_Witness ==
    /\ last = Last("deleteItem:missed", "t1")
    /\ Len(items["t1"]) >= 2

\* C6: a reorder from index o to index d, both within the sequence, keeps the
\* length and the items, puts the item of index o at index d, keeps the other
\* items in their order, and saves the result as the list's record.
C6_Reorder ==
    [][\A c \in Tabs, o, d \in 0..(MaxReorderLen - 1) :
          onEnd(c, o, d)
          => LET s == items[c]
                 r == items'[c]
             IN /\ Len(r) = Len(s)
                /\ Range(r) = Range(s)
                /\ r[d + 1] = s[o + 1]
                /\ Without(r, d + 1) = Without(s, o + 1)
                /\ load(store', listId[c]) = r]_vars

\* [A,B,C,D] has become [B,C,A,D]
C6_Witness ==
    /\ last = Last("onEnd", "t1")
    /\ items["t1"] = <<ListOf(4)[2], ListOf(4)[3], ListOf(4)[1], ListOf(4)[4]>>
    /\ load(store, listId["t1"]) = items["t1"]

\* C7: committing an edit whose text is empty once trimmed, and cancelling an
\* edit, change no sequence and write nothing, and leave edit mode.
C7_EditDiscarded ==
    [][\A c \in Tabs, typed \in TypedTexts :
          ((trim(typed) = "" /\ saveEdit(c, typed)) \/ cancelEdit(c))
          => (items' = items /\ store' = store /\ editingId'[c] = Null)]_vars

\* a tab has discarded the edit of an item it holds
C7_Witness ==
    /\ last = Last("saveEdit:discarded", "t1")
    /\ items["t1"] # <<>>
    /\ editingId["t1"] = Null

\* C8: after remove(L), load(L) is empty and loadTitle(L) is the default
\* title, and a second remove(L) changes nothing.
C8_RemoveAll ==
    [][\A uuid \in AdapterIds :
          callRemove("t1", uuid)
          => /\ load(store', uuid) = <<>>
             /\ loadTitle(store', uuid) = DefaultTitle
             /\ remove(store', uuid) = store']_vars

\* C9: loadTitle(L) right after saveTitle(L, t) returns t, for every t, the
\* empty string too.
C9_TitleRoundTrip ==
    [][\A uuid \in AdapterIds, t \in Titles :
          callSaveTitle("t1", uuid, t) => loadTitle(store', uuid) = t]_vars

\* C10: a tab alone in the browser that comes back, by its address, to a
\* list it has left holds the sequence it held when it left the list.
C10_Reopen ==
    [][\A c \in Tabs :
          \A L \in DOMAIN left[c] :
              (L # listId[c] /\ hashchange(c, "#/" \o L, TRUE))
              => items'[c] = left[c][L].items]_vars

\* a tab is back on a list with items that it left by New List
C10_Witness ==
    /\ last = Last("hashchange:switched", "t1")
    /\ listId["t1"] \in DOMAIN left["t1"]
    /\ left["t1"][listId["t1"]].by = "newList"
    /\ items["t1"] # <<>>

\* an identifier of the form crypto.randomUUID() makes
WellFormedId(s) ==
    /\ Len(s) >= 2
    /\ CharAt(s, 1) = "u"
    /\ \A i \in 2..Len(s) : CharAt(s, i) \in Digits

\* the text an address carries after "#/", Null when it has no such part
Carried(h) == IF startsWith(h, "#/") THEN slice(h, 2) ELSE Null

\* C11: a tab opened at an address that carries a well-formed identifier
\* makes it the active one and leaves the address as it is; opened at any
\* other address it draws a fresh identifier, makes it active and writes it
\* into the address; and no tab's active identifier is ever malformed.
C11_Resolution ==
    /\ [](\A c \in Tabs : mounted[c] => WellFormedId(listId[c]))
    /\ [][\A h \in AddressInputs :
             Setup("t1", h, MaxAddressUuid)
             => IF WellFormedId(Carried(h))
                THEN /\ listId'["t1"] = Carried(h)
                     /\ hash'["t1"] = h
                     /\ uuids' = uuids
                ELSE /\ listId'["t1"] = UUID(uuids + 1)
                     /\ hash'["t1"] = "#/" \o UUID(uuids + 1)
                     /\ uuids' = uuids + 1]_vars

\* C12: a confirmed Delete of an id that no item of the tab's sequence has
\* leaves the record of every list as it is, as load reads it, also when
\* another tab has saved the list and the tab has not yet been notified.
C12_DeleteMissFrame ==
    [][\A c \in Tabs, id \in Issued :
          (/\ \A n \in 1..Len(items[c]) : items[c][n].id # id
           /\ deleteItem(c, id, TRUE))
          => \A L \in KnownLists : load(store', L) = load(store, L)]_vars

\* the identifiers, of those the adapter is called with, that a tab makes
\* active when its address carries them
Activatable == {b \in AdapterIds : getIdFromHash("#/" \o b) = b}

\* C13: for identifiers a and b that a tab can make active, saveTitle(a, t)
\* leaves load(b) as it is, save(a, its) and remove(a) leave loadTitle(b) as
\* it is, and the key that saveTitle(a, t) changes is not one the storage
\* listener reads as the key of a list that a tab can have active.
C13_NoCollision ==
    [][\A a \in Activatable :
          /\ (\E t \in Titles : callSaveTitle("t1", a, t))
             => /\ \A b \in Activatable : load(store', b) = load(store, b)
                /\ \A k \in Changed(store') :
                      startsWith(k, PREFIX) => slice(k, Len(PREFIX)) \notin Activatable
          /\ ((\E its \in SavedSequences : callSave("t1", a, its)) \/ callRemove("t1", a))
             => \A b \in Activatable : loadTitle(store', b) = loadTitle(store, b)]_vars

\* how the handlers that call saveItems() end: an Add that adds, a confirmed
\* Delete, an Edit commit that saves, a Reorder
SavingOps ==
    {"addItem:added", "deleteItem:missed", "deleteItem:removed", "saveEdit:saved", "onEnd"}

\* after a step of tab c in which a handler saves, the list's record loads as
\* the tab's sequence
C14_SavedAfter ==
    \A c \in Tabs :
        (last'.tab = c /\ last'.op \in SavingOps)
        => load(store', listId'[c]) = items'[c]

\* a tab with no storage event of its list waiting holds what the record loads as
C14_InSync ==
    \A c \in Tabs :
        (mounted[c] /\ PREFIX \o listId[c] \notin Range(events[c]))
        => items[c] = load(store, listId[c])

\* C14: every mutation is saved in the handler that makes it, so right after
\* it load(L) is the tab's sequence; and in every state a mounted tab that
\* has no notification of its list waiting holds load(L).
C14_SavedAtOnce == [](C14_InSync) /\ [][C14_SavedAfter]_vars

\* t1 has deleted an item and holds what is stored, while t2, on the same
\* list and not yet notified, still holds the item
C14_Witness ==
    /\ last = Last("deleteItem:removed", "t1")
    /\ listId["t2"] = listId["t1"]
    /\ events["t1"] = <<>>
    /\ items["t1"] = load(store, listId["t1"])
    /\ items["t2"] # items["t1"]
    /\ events["t2"] # <<>>

\* two tabs on the same list with no storage event waiting hold what the
\* record loads as, and so the same sequence
C15_Converged ==
    \A c1, c2 \in Tabs :
        (/\ c1 # c2
         /\ mounted[c1] /\ mounted[c2]
         /\ listId[c1] = listId[c2]
         /\ events[c1] = <<>> /\ events[c2] = <<>>)
        => /\ items[c1] = load(store, listId[c1])
           /\ items[c2] = items[c1]

\* handling a storage event writes nothing and queues nothing: the queues
\* only shrink while no tab mutates
C15_Drains ==
    \A c \in Tabs :
        storageEvent(c)
        => /\ store' = store
           /\ \A d \in Tabs : Len(events'[d]) <= Len(events[d])
           /\ Len(events'[c]) < Len(events[c])

\* C15: tabs on the same list converge: with every notification delivered,
\* each holds load(L), whatever the order of the saves and the deliveries
\* before; and deliveries alone empty the queues.
C15_Convergence == [](C15_Converged) /\ [][C15_Drains]_vars

\* t1 has handled the last notification waiting, and both tabs, on the same
\* list, hold the item that the record holds
C15_Witness ==
    /\ last = Last("storage:reloaded", "t1")
    /\ mounted["t2"]
    /\ listId["t1"] = listId["t2"]
    /\ events["t1"] = <<>> /\ events["t2"] = <<>>
    /\ load(store, listId["t1"]) # <<>>
    /\ items["t1"] = load(store, listId["t1"])
    /\ items["t2"] = items["t1"]

\* a handler that saves sets the key of the tab's list to the encoding of the
\* tab's whole sequence, whatever the record held, and a step that changes
\* the store changes that key alone
C16_WriteReplaces ==
    \A c \in Tabs :
        /\ (last'.tab = c /\ last'.op \in SavingOps)
           => getItem(store', PREFIX \o listId[c]) = stringify(items'[c])
        /\ (last'.tab = c /\ store' # store)
           => store' = setItem(store, PREFIX \o listId[c], stringify(items'[c]))

\* a tab that handles a notification of its list drops its whole sequence
\* for the record's
C16_DeliveryReplaces ==
    \A c \in Tabs :
        (/\ storageEvent(c)
         /\ Head(events[c]) = PREFIX \o listId[c])
        => items'[c] = load(store, listId[c])

\* C16: last write wins, no merge: every save replaces the record by the
\* whole sequence of the tab that saves, and every notification handled
\* replaces the tab's whole sequence by the record; so an item one tab added
\* is lost when the other tab saves before it handles the notification.
C16_LastWriteWins == [][C16_WriteReplaces /\ C16_DeliveryReplaces]_vars

\* t2, not yet notified of the item t1 added, has saved its own sequence:
\* t1 still holds the item and the record no longer has it
C16_Witness ==
    /\ last = Last("deleteItem:missed", "t2")
    /\ listId["t1"] = listId["t2"]
    /\ events["t2"] # <<>>
    /\ items["t2"] = <<>>
    /\ items["t1"] # <<>>
    /\ load(store, listId["t1"]) = <<>>

\* no two elements of the sequence have the same id
DistinctIds(a) == \A m, n \in 1..Len(a) : m # n => a[m].id # a[n].id

C18_ExitOnTransition ==
    \A c \in Tabs :
        (\/ newList(c, FALSE, MaxAddressUuid)
         \/ \E h \in AddressInputs :
               /\ getIdFromHash(h) # Null
               /\ getIdFromHash(h) # listId[c]
               /\ hashchange(c, h, FALSE))
        => /\ editingId'[c] = Null
           /\ EditedRow(c)' = {}

\* C18: right after New List and right after an address change to another
\* identifier no item is in edit mode, whatever was edited before; and in
\* every state at most one item of a tab is in edit mode.
C18_EditExits ==
    /\ [](\A c \in Tabs : Cardinality(EditedRow(c)) <= 1)
    /\ [][C18_ExitOnTransition]_vars

\* the address of a tab that was editing an item has been changed to another
\* list's, and the tab edits nothing
C18_Witness ==
    /\ last = Last("hashchange:switchedFromEdit", "t1")
    /\ editingId["t1"] = Null
    /\ EditedRow("t1") = {}

\* C19: in every state, editingId of a tab is null or the id of an item of
\* the tab's sequence.
C19_NoDanglingEdit ==
    \A c \in Tabs :
        mounted[c] => (editingId[c] = Null \/ EditedRow(c) # {})

\* C20: in every state of a mounted tab, the identifier its address carries
\* is its active list identifier.
C20_AddressAgrees ==
    \A c \in Tabs :
        mounted[c] => getIdFromHash(hash[c]) = listId[c]

====
